---- MODULE Spec2Model ----
(***************************************************************************)
(* Model of the 2D wave simulation plugin                                  *)
(* (src/src/wave_2d_simulation/simulation_plugin.rs).                      *)
(*                                                                         *)
(* Samples are f32 in the program; here a sample is an exact rational, so  *)
(* the arithmetic of the stencil and of the 0.995 attenuation is computed  *)
(* and not abstracted away (the rounding of f32 is).                       *)
(* Click coordinates are f32; here a coordinate is an integer number of    *)
(* half cells (3 stands for 1.5), which is enough to exercise round().     *)
(***************************************************************************)
EXTENDS Integers, Sequences, FiniteSets, TLC

\* ------------------------------------------------------------------ bounds

\* Frames (one run of the on_update system set) explored.
MaxFrames == 3

\* PlotClickedEvents sent during a run.
MaxClicks == 1

\* ------------------------------------------------------- exact rationals

\* 0.995 = 199 / 200
DecayNum == 199

DecayDen == 200

RECURSIVE GCD(_, _)
GCD(a, b) == IF b = 0 THEN a ELSE GCD(b, a % b)

Abs(n) == IF n < 0 THEN -n ELSE n

Min(a, b) == IF a <= b THEN a ELSE b

RECURSIVE Pow(_, _)
Pow(b, k) == IF k = 0 THEN 1 ELSE b * Pow(b, k - 1)

\* a fraction n / d, d > 0, in lowest terms
RNorm(n, d) ==
    IF n = 0 THEN <<0, 1>>
    ELSE LET g == GCD(Abs(n), d) IN <<n \div g, d \div g>>

RAdd(a, b) ==
    LET g == GCD(a[2], b[2])
        l == (a[2] \div g) * b[2]
    IN  RNorm(a[1] * (l \div a[2]) + b[1] * (l \div b[2]), l)

RMul(a, b) ==
    IF a[1] = 0 \/ b[1] = 0 THEN <<0, 1>>
    ELSE LET g1 == GCD(Abs(a[1]), b[2])
             g2 == GCD(Abs(b[1]), a[2])
         IN  <<(a[1] \div g1) * (b[1] \div g2), (a[2] \div g2) * (b[2] \div g1)>>

\* A sample <<n, d, k>> is the rational (n / d) * (199 / 200)^k, kept in the
\* one form where n / d is in lowest terms and k is as large as it can be
\* (199 does not divide n), so that equal samples are equal tuples and the
\* repeated attenuation does not outgrow the integers.
RECURSIVE SNorm(_, _)
SNorm(q, k) ==
    IF q[1] = 0 THEN <<0, 1, 0>>
    ELSE IF q[1] % DecayNum = 0
    THEN SNorm(RMul(<<q[1] \div DecayNum, q[2]>>, <<DecayDen, 1>>), k + 1)
    ELSE IF q[2] % DecayNum = 0 /\ k > 0
    THEN SNorm(RMul(<<q[1], q[2] \div DecayNum>>, <<1, DecayDen>>), k - 1)
    ELSE <<q[1], q[2], k>>

SRat(n, d) == SNorm(RNorm(n, d), 0)

SInt(n) == SRat(n, 1)

SZero == SInt(0)

\* (199 / 200)^k as a fraction
DPow(k) == <<Pow(DecayNum, k), Pow(DecayDen, k)>>

SAdd(x, y) ==
    LET m == Min(x[3], y[3])
    IN  IF x[1] = 0 THEN y
        ELSE IF y[1] = 0 THEN x
        ELSE SNorm(RAdd(RMul(<<x[1], x[2]>>, DPow(x[3] - m)),
                        RMul(<<y[1], y[2]>>, DPow(y[3] - m))), m)

SNeg(x) == <<-x[1], x[2], x[3]>>

SSub(x, y) == SAdd(x, SNeg(y))

SMul(x, y) == SNorm(RMul(<<x[1], x[2]>>, <<y[1], y[2]>>), x[3] + y[3])

\* x / y for a positive y that is no multiple of 0.995
SDiv(x, y) == SNorm(RMul(<<x[1], x[2]>>, <<y[2], y[1]>>), x[3] - y[3])

\* ------------------------------------------------------------ parameters

\* SimulationParameters as the plugin reads them.  wave_velocity,
\* time_step_width and spatial_step_width are positive integers here.
Param(dx, dy, bs, absorbing, sw) ==
    [dimx |-> dx, dimy |-> dy, boundary_size |-> bs,
     use_absorbing_boundary |-> absorbing,
     wave_velocity |-> 1, time_step_width |-> 1, spatial_step_width |-> sw,
     applied_force_amplitude |-> SInt(1)]

\* The configurations explored.  Nothing in the plugin validates them, so
\* an unsupported boundary_size and an empty interior are among them.
ParamSet ==
    {Param(3, 3, 1, TRUE, sw) : sw \in {1, 2}}
    \cup {Param(3, 3, 1, FALSE, 1), Param(4, 3, 1, TRUE, 2), Param(4, 3, 1, FALSE, 1)}
    \cup {Param(3, 3, 2, FALSE, 1), Param(2, 3, 1, FALSE, 1)}
    \cup {Param(9, 9, 4, a, 1) : a \in BOOLEAN}

\* ------------------------------------------------------------------ grid

NumLayers == 3

Layers == 0 .. (NumLayers - 1)

Cells(dimx, dimy) == (0 .. (dimx - 1)) \X (0 .. (dimy - 1))

\* Faulty variant of Zeros: a grid that does not start at rest.
OnesGrid(dimx, dimy) == [l \in Layers |-> [c \in Cells(dimx, dimy) |-> SInt(1)]]

\* Array3::zeros((3, dimx, dimy))
Zeros(dimx, dimy) == [l \in Layers |-> [c \in Cells(dimx, dimy) |-> SZero]]

\* Array::from_elem((dimx, dimy), v)
FromElem(dimx, dimy, v) == [c \in Cells(dimx, dimy) |-> v]

\* SimulationGrid::default(), Tau::default(), Kappa::default(): empty arrays
EmptyGrid == [l \in Layers |-> <<>>]

EmptyField == <<>>

VARIABLES
    parameters,   \* Res<SimulationParameters>
    pc,           \* "built" | "running" | "panicked"
    u,            \* SimulationGrid: layer -> cell -> sample
    tau,          \* Tau
    kappa,        \* Kappa
    timer,        \* ApplyingForceTimer
    events,       \* PlotClickedEvents not yet read by apply_force
    ran,          \* systems of the on_update set run in the current frame
    frames,       \* frames started
    clicks,       \* events sent
    fires,        \* times the periodic source has written its sample
    last          \* record of the last system run (values local to it)

vars == <<parameters, pc, u, tau, kappa, timer, events, ran, frames, clicks, fires, last>>

\* ----------------------------------------------------------------- timer

\* bevy's Timer: Timer::default() is a non-repeating timer of duration 0,
\* and build() pauses it.  Nothing else in the plugin touches the timer
\* (ApplyingForceTimer is private to the module).
TimerDefault ==
    [paused |-> FALSE, repeating |-> FALSE, duration |-> 0, elapsed |-> 0,
     finished |-> FALSE, times_finished_this_tick |-> 0]

\* Faulty variant of BuildTimer: the timer is left running.
BuildTimerRunning == TimerDefault

\* let mut timer = Timer::default(); timer.pause();
BuildTimer == [TimerDefault EXCEPT !.paused = TRUE]

\* Timer::tick(delta)
TimerTick(t, delta) ==
    IF t.paused
    THEN [t EXCEPT !.times_finished_this_tick = 0,
                   !.finished = IF t.repeating THEN FALSE ELSE t.finished]
    ELSE IF ~t.repeating /\ t.finished
    THEN [t EXCEPT !.times_finished_this_tick = 0]
    ELSE LET e   == t.elapsed + delta
             fin == e >= t.duration
         IN  IF ~fin
             THEN [t EXCEPT !.elapsed = e, !.finished = FALSE,
                            !.times_finished_this_tick = 0]
             ELSE IF t.repeating
             THEN [t EXCEPT !.elapsed = e % t.duration, !.finished = TRUE,
                            !.times_finished_this_tick = e \div t.duration]
             ELSE [t EXCEPT !.elapsed = t.duration, !.finished = TRUE,
                            !.times_finished_this_tick = 1]

\* Timer::just_finished()
JustFinished(t) == t.times_finished_this_tick > 0

\* time.delta() of a frame, in milliseconds
DeltaSet == {0, 16}

\* ---------------------------------------------------------------- clicks

\* f32::round of h/2: to the nearest integer, halves away from zero
Round(h) == IF h >= 0 THEN (h + 1) \div 2 ELSE -((1 - h) \div 2)

\* `as usize` of a float: saturating, so a negative value becomes 0
AsUsize(n) == IF n < 0 THEN 0 ELSE n

\* The PlotClickedEvents explored for a dimx * dimy grid, <<x, y>> in half
\* cells: three that round into the grid (the last two on the source's cell
\* and next to the centre), then x = 0, y = 0, x rounding up to dimx,
\* y = dimy, a negative x and a y far past the grid.
ClickSet(dimx, dimy) ==
    { <<1, 1>>,
      <<2 * ((4 * dimx) \div 6), 2 * ((4 * dimy) \div 6)>>,
      <<2 * (dimx \div 2), 2 * (dimy \div 2) + 1>>,
      <<0, 2>>,
      <<2, 0>>,
      <<2 * dimx - 1, 2>>,
      <<2, 2 * dimy>>,
      <<-3, 2>>,
      <<2, 6 * dimy>> }

\* ------------------------------------------------------------ operations

Systems == {"apply_force", "update_wave"}

NoRun ==
    [sys |-> "none", before |-> EmptyGrid, rotated |-> EmptyGrid,
     written |-> EmptyGrid, boundary |-> "none", completed |-> FALSE,
     events |-> <<>>, delta |-> 0, fired |-> FALSE]

\* App::new() ... add_plugin(SimulationPlugin): the resources build() inserts
Init ==
    /\ parameters \in ParamSet
    /\ pc = "built"
    /\ u = EmptyGrid
    /\ tau = EmptyField
    /\ kappa = EmptyField
    /\ timer = BuildTimer
    /\ events = <<>>
    /\ ran = <<>>
    /\ frames = 0
    /\ clicks = 0
    /\ fires = 0
    /\ last = NoRun

\* ((wave_velocity * time_step_width) / spatial_step_width).powi(2)
TauValue(p) ==
    LET r == SRat(p.wave_velocity * p.time_step_width, p.spatial_step_width)
    IN  SMul(r, r)

\* time_step_width * wave_velocity / spatial_step_width
KappaValue(p) == SRat(p.time_step_width * p.wave_velocity, p.spatial_step_width)

\* on_enter(AppState::Wave2dSimulation)
setup ==
    /\ pc = "built"
    /\ tau' = FromElem(parameters.dimx, parameters.dimy, TauValue(parameters))
    /\ kappa' = FromElem(parameters.dimx, parameters.dimy, KappaValue(parameters))
    /\ u' = Zeros(parameters.dimx, parameters.dimy)
    /\ pc' = "running"
    /\ UNCHANGED <<parameters, timer, events, ran, frames, clicks, fires, last>>

\* The front end sends a PlotClickedEvent.
Click ==
    /\ pc = "running"
    /\ clicks < MaxClicks
    /\ \E ev \in ClickSet(parameters.dimx, parameters.dimy) :
           events' = Append(events, ev)
    /\ clicks' = clicks + 1
    /\ UNCHANGED <<parameters, pc, u, tau, kappa, timer, ran, frames, fires, last>>

\* The two systems of the on_update set carry no ordering constraint
\* (.with_system(apply_force).with_system(update_wave), no label, before or
\* after), so the scheduler runs each once per frame in either order.
CanRun(s) ==
    /\ pc = "running"
    /\ IF Len(ran) = Cardinality(Systems) \/ ran = <<>>
       THEN frames < MaxFrames
       ELSE \A i \in 1 .. Len(ran) : ran[i] # s

RanAfter(s) == IF Len(ran) = Cardinality(Systems) THEN <<s>> ELSE Append(ran, s)

FramesAfter == IF Len(ran) = Cardinality(Systems) \/ ran = <<>> THEN frames + 1 ELSE frames

\* *u.0.get_mut((0, x, y)).unwrap() = applied_force_amplitude
ForceAt(g, x, y, amp) == [g EXCEPT ![0][<<x, y>>] = amp]

\* the periodic source
PeriodicForce(g, t, p) ==
    IF JustFinished(t)
    THEN ForceAt(g, (4 * p.dimx) \div 6, (4 * p.dimy) \div 6, p.applied_force_amplitude)
    ELSE g

\* Faulty variant of InjectAt: the lower edge is not excluded.
InjectAtEdgeInclusive(g, ev, p) ==
    LET event_x == AsUsize(Round(ev[1]))
        event_y == AsUsize(Round(ev[2]))
    IN  IF 0 <= event_x /\ event_x < p.dimx /\ 0 <= event_y /\ event_y < p.dimy
        THEN ForceAt(g, event_x, event_y, p.applied_force_amplitude)
        ELSE g

\* the body of the loop over plot_clicked_events
InjectAt(g, ev, p) ==
    LET event_x == AsUsize(Round(ev[1]))
        event_y == AsUsize(Round(ev[2]))
    IN  IF 0 < event_x /\ event_x < p.dimx /\ 0 < event_y /\ event_y < p.dimy
        THEN ForceAt(g, event_x, event_y, p.applied_force_amplitude)
        ELSE g

RECURSIVE InjectAll(_, _, _)
InjectAll(g, evs, p) ==
    IF evs = <<>> THEN g
    ELSE InjectAll(InjectAt(g, Head(evs), p), Tail(evs), p)

apply_force ==
    /\ CanRun("apply_force")
    /\ \E delta \in DeltaSet :
         LET t == TimerTick(timer, delta)
             g == InjectAll(PeriodicForce(u, t, parameters), events, parameters)
         IN  /\ timer' = t
             /\ u' = g
             /\ fires' = IF JustFinished(t) THEN fires + 1 ELSE fires
             /\ last' = [NoRun EXCEPT !.sys = "apply_force", !.before = u,
                                      !.completed = TRUE, !.events = events,
                                      !.delta = delta, !.fired = JustFinished(t)]
    /\ events' = <<>>
    /\ ran' = RanAfter("apply_force")
    /\ frames' = FramesAfter
    /\ UNCHANGED <<parameters, pc, tau, kappa, clicks>>

\* Zip::from(a).and(b).for_each(std::mem::swap) on layers a and b
SwapLayers(g, a, b) == [g EXCEPT ![a] = g[b], ![b] = g[a]]

\* Faulty variant of Rotate: the two swaps in the other order.
RotateReversed(g) == SwapLayers(SwapLayers(g, 1, 0), 2, 1)

\* the two swaps at the head of update_wave: (2, 1), then (1, 0)
Rotate(g) == SwapLayers(SwapLayers(g, 2, 1), 1, 0)

\* finite_difference::update_with_laplace_operator_1: the five-point leapfrog
\* update of the interior, indexed from 0 as the returned array is
update_with_laplace_operator_1(dimx, dimy, t, g) ==
    [c \in Cells(dimx - 2, dimy - 2) |->
        LET x == c[1] + 1
            y == c[2] + 1
            nb == SAdd(SAdd(g[1][<<x + 1, y>>], g[1][<<x - 1, y>>]),
                       SAdd(g[1][<<x, y + 1>>], g[1][<<x, y - 1>>]))
            lap == SSub(nb, SMul(SInt(4), g[1][<<x, y>>]))
        IN  SSub(SAdd(SMul(t[<<x, y>>], lap), SMul(SInt(2), g[1][<<x, y>>])),
                 g[2][<<x, y>>])]

\* one axis of the fourth-order Laplacian: [-1/12, 4/3, -5/2, 4/3, -1/12]
Axis4(m2, m1, c0, p1, p2) ==
    SAdd(SAdd(SMul(SRat(-1, 12), SAdd(m2, p2)), SMul(SRat(4, 3), SAdd(m1, p1))),
         SMul(SRat(-5, 2), c0))

\* finite_difference::update_with_laplace_operator_4
update_with_laplace_operator_4(dimx, dimy, t, g) ==
    [c \in Cells(dimx - 8, dimy - 8) |->
        LET x == c[1] + 4
            y == c[2] + 4
            p == g[1]
            lap == SAdd(Axis4(p[<<x - 2, y>>], p[<<x - 1, y>>], p[<<x, y>>],
                              p[<<x + 1, y>>], p[<<x + 2, y>>]),
                        Axis4(p[<<x, y - 2>>], p[<<x, y - 1>>], p[<<x, y>>],
                              p[<<x, y + 1>>], p[<<x, y + 2>>]))
        IN  SSub(SAdd(SMul(t[<<x, y>>], lap), SMul(SInt(2), p[<<x, y>>])),
                 g[2][<<x, y>>])]

\* u.0.slice_mut(s![0, bs..dimx-bs, bs..dimy-bs]).assign(&new_u)
WriteBack(g, new_u, dimx, dimy, bs) ==
    [g EXCEPT ![0] =
        [c \in DOMAIN g[0] |->
            IF /\ bs <= c[1] /\ c[1] < dimx - bs
               /\ bs <= c[2] /\ c[2] < dimy - bs
            THEN new_u[<<c[1] - bs, c[2] - bs>>]
            ELSE g[0][c]]]

\* the neighbour of a ring coordinate one cell nearer the interior
Inner(x, dim, bs) ==
    IF x < bs THEN x + 1 ELSE IF x >= dim - bs THEN x - 1 ELSE x

\* first-order Mur value of a ring cell: from its inner neighbour in the
\* previous layer and the change between the inner neighbour's new value and
\* the cell's previous value, weighted by (kappa - 1) / (kappa + 1)
RECURSIVE Mur(_, _, _, _, _, _, _)
Mur(g, k, dimx, dimy, bs, x, y) ==
    LET ix == Inner(x, dimx, bs)
        iy == Inner(y, dimy, bs)
    IN  IF ix = x /\ iy = y THEN g[0][<<x, y>>]
        ELSE LET w == SDiv(SSub(k[<<x, y>>], SInt(1)), SAdd(k[<<x, y>>], SInt(1)))
             IN  SAdd(g[1][<<ix, iy>>],
                      SMul(w, SSub(Mur(g, k, dimx, dimy, bs, ix, iy),
                                   g[1][<<x, y>>])))

\* finite_difference::update_with_absorbing_boundary
update_with_absorbing_boundary(dimx, dimy, bs, k, g) ==
    [g EXCEPT ![0] = [c \in DOMAIN g[0] |-> Mur(g, k, dimx, dimy, bs, c[1], c[2])]]

\* the literal 0.995
Decay == SRat(DecayNum, DecayDen)

\* Faulty variant of Attenuate: the outermost rows and columns are skipped.
AttenuateInnerOnly(g) ==
    [l \in DOMAIN g |-> [c \in DOMAIN g[l] |->
        IF \/ <<c[1] + 1, c[2]>> \notin DOMAIN g[l]
           \/ <<c[1] - 1, c[2]>> \notin DOMAIN g[l]
           \/ <<c[1], c[2] + 1>> \notin DOMAIN g[l]
           \/ <<c[1], c[2] - 1>> \notin DOMAIN g[l]
        THEN g[l][c]
        ELSE SMul(g[l][c], Decay)]]

\* Faulty variant of Attenuate: only the current layer is attenuated.
AttenuateCurrentOnly(g) ==
    [l \in DOMAIN g |-> [c \in DOMAIN g[l] |->
        IF l = 0 THEN SMul(g[l][c], Decay) ELSE g[l][c]]]

\* u.0.mapv_inplace(|u| u * 0.995): u.0 is the whole three-layer array
Attenuate(g) == [l \in DOMAIN g |-> [c \in DOMAIN g[l] |-> SMul(g[l][c], Decay)]]

\* boundary_size == 1 / boundary_size == 4 / todo!()
Supported(bs) == bs = 1 \/ bs = 4

Stencil(p, t, g) ==
    IF p.boundary_size = 1
    THEN update_with_laplace_operator_1(p.dimx, p.dimy, t, g)
    ELSE update_with_laplace_operator_4(p.dimx, p.dimy, t, g)

Boundary(p, k, g) ==
    IF p.use_absorbing_boundary
    THEN update_with_absorbing_boundary(p.dimx, p.dimy, p.boundary_size, k, g)
    ELSE Attenuate(g)

\* which branch of `if parameters.use_absorbing_boundary` runs
BoundaryMode(p) == IF p.use_absorbing_boundary THEN "absorbing" ELSE "attenuating"

\* what a completed update_wave leaves in the grid
UpdateWaveResult(p, t, k, g) ==
    Boundary(p, k,
        WriteBack(Rotate(g), Stencil(p, t, Rotate(g)), p.dimx, p.dimy, p.boundary_size))

update_wave ==
    /\ CanRun("update_wave")
    /\ LET rot == Rotate(u)
       IN  IF ~Supported(parameters.boundary_size)
           THEN \* todo!() panics after the swaps have been done in place
                /\ u' = rot
                /\ pc' = "panicked"
                /\ last' = [NoRun EXCEPT !.sys = "update_wave", !.before = u,
                                         !.rotated = rot]
           ELSE LET wr == WriteBack(rot, Stencil(parameters, tau, rot),
                                    parameters.dimx, parameters.dimy,
                                    parameters.boundary_size)
                IN  /\ u' = Boundary(parameters, kappa, wr)
                    /\ pc' = pc
                    /\ last' = [NoRun EXCEPT !.sys = "update_wave", !.before = u,
                                             !.rotated = rot, !.written = wr,
                                             !.boundary = BoundaryMode(parameters),
                                             !.completed = TRUE]
    /\ ran' = RanAfter("update_wave")
    /\ frames' = FramesAfter
    /\ UNCHANGED <<parameters, tau, kappa, timer, events, clicks, fires>>

Next == setup \/ Click \/ apply_force \/ update_wave

Spec == Init /\ [][Next]_vars

\* ---------------------------------------------------------------- claims

AllCells == Cells(parameters.dimx, parameters.dimy)

InInterior(c) ==
    /\ parameters.boundary_size <= c[1]
    /\ c[1] < parameters.dimx - parameters.boundary_size
    /\ parameters.boundary_size <= c[2]
    /\ c[2] < parameters.dimy - parameters.boundary_size

Updated == last.sys = "update_wave" /\ last.completed

\* C1: the two swaps of update_wave rotate the layers without loss: with A,
\* B, C the layers 0, 1, 2 before the swaps, afterwards layer 1 is A, layer 2
\* is B and layer 0 is C.
C1_Rotation ==
    last.sys = "update_wave" =>
        /\ last.rotated[1] = last.before[0]
        /\ last.rotated[2] = last.before[1]
        /\ last.rotated[0] = last.before[2]

\* update_wave has rotated a grid whose three layers all differ
C1_Witness ==
    /\ last.sys = "update_wave"
    /\ last.before[0] # last.before[1]
    /\ last.before[1] # last.before[2]
    /\ last.before[0] # last.before[2]

\* C2: within a frame apply_force always runs before update_wave.
C2_ForceBeforeUpdate ==
    \A i \in 1 .. Len(ran) :
        ran[i] = "update_wave" => \E j \in 1 .. (i - 1) : ran[j] = "apply_force"

\* C3: a tick that aborts on an unsupported boundary_size leaves the three
\* layers exactly as they were before the tick.
C3_AbortLeavesGrid == pc = "panicked" => u = last.before

\* the integer nearest to h/2, as floor(h/2 + 1/2)
Nearest(h) == (h + 1) \div 2

\* event ev lands on cell c, strictly inside 0 < x < dimx, 0 < y < dimy
Hit(ev, c) ==
    /\ Nearest(ev[1]) = c[1]
    /\ Nearest(ev[2]) = c[2]
    /\ 0 < c[1] /\ c[1] < parameters.dimx
    /\ 0 < c[2] /\ c[2] < parameters.dimy

SourceCell == <<(4 * parameters.dimx) \div 6, (4 * parameters.dimy) \div 6>>

\* C4: apply_force changes the grid only through the events that round to a
\* cell with 0 < x < dimx and 0 < y < dimy: that sample of layer 0 becomes
\* applied_force_amplitude, every other sample of the three layers keeps its
\* value (the periodic source's cell aside, when it fires), and no event
\* stops the run.
C4_ClickInjection ==
    last.sys = "apply_force" =>
        /\ pc = "running"
        /\ \A l \in Layers : \A c \in AllCells :
              u[l][c] =
                 IF /\ l = 0
                    /\ \/ \E i \in 1 .. Len(last.events) : Hit(last.events[i], c)
                       \/ last.fired /\ c = SourceCell
                 THEN parameters.applied_force_amplitude
                 ELSE last.before[l][c]

\* apply_force has consumed an event that set a sample to the amplitude
C4_Witness ==
    /\ last.sys = "apply_force"
    /\ \E i \in 1 .. Len(last.events) : \E c \in AllCells :
          /\ Hit(last.events[i], c)
          /\ last.before[0][c] # parameters.applied_force_amplitude
          /\ u[0][c] = parameters.applied_force_amplitude

\* C5: with use_absorbing_boundary = false a tick runs the attenuation and
\* not the absorbing update, and leaves every sample of the current layer,
\* interior and edge ring alike, at 0.995 times its value after the stencil
\* write-back.
C5_Attenuation ==
    (Updated /\ ~parameters.use_absorbing_boundary) =>
        /\ last.boundary = "attenuating"
        /\ \A c \in AllCells : u[0][c] = SMul(last.written[0][c], SRat(199, 200))

\* an attenuating tick whose written layer is non-zero both in the interior
\* and on the edge ring
C5_Witness ==
    /\ Updated
    /\ ~parameters.use_absorbing_boundary
    /\ \E c \in AllCells : InInterior(c) /\ last.written[0][c] # SZero
    /\ \E c \in AllCells : ~InInterior(c) /\ last.written[0][c] # SZero

\* C6: from the all-zero grid of setup, as long as the periodic source has
\* not fired and no click event has arrived, every sample of every layer is
\* zero after any number of ticks.
C6_ZeroStaysZero ==
    (pc = "running" /\ clicks = 0 /\ fires = 0) =>
        \A l \in Layers : \A c \in AllCells : u[l][c] = SZero

\* two or more ticks without any force, with the fourth-order stencil and the
\* absorbing boundary
C6_Witness ==
    /\ Updated
    /\ clicks = 0 /\ fires = 0
    /\ frames >= 2
    /\ parameters.boundary_size = 4
    /\ parameters.use_absorbing_boundary

\* C7: once setup has completed and a grid exists, dimx and dimy exceed
\* 2 * boundary_size and boundary_size is 1 or 4.
C7_SetupValidates ==
    pc # "built" =>
        /\ parameters.dimx > 2 * parameters.boundary_size
        /\ parameters.dimy > 2 * parameters.boundary_size
        /\ parameters.boundary_size \in {1, 4}

Perturbed(g) == [g EXCEPT ![2] = [c \in DOMAIN g[2] |-> SAdd(g[2][c], SInt(1))]]

\* C9: after a completed tick no cell of the current layer depends on what
\* the two-back layer held before the tick: the tick run from the same grid
\* with another two-back layer leaves the same current layer.
C9_StaleOverwritten ==
    Updated =>
        \A c \in AllCells :
            u[0][c] = UpdateWaveResult(parameters, tau, kappa, Perturbed(last.before))[0][c]

\* C10: an attenuating tick leaves the previous and two-back layers alone:
\* afterwards layer 1 is the layer 0 of before the tick and layer 2 is the
\* layer 1 of before the tick.
C10_OnlyCurrentLayer ==
    (Updated /\ ~parameters.use_absorbing_boundary) =>
        /\ u[1] = last.before[0]
        /\ u[2] = last.before[1]

\* C10, as the code has it: an attenuating tick multiplies the previous and
\* two-back layers by 0.995 as well: afterwards layer 1 is 0.995 times the
\* layer 0 of before the tick and layer 2 is 0.995 times the layer 1 of
\* before the tick.
C10_AllLayersAttenuated ==
    (Updated /\ ~parameters.use_absorbing_boundary) =>
        \A c \in AllCells :
            /\ u[1][c] = SMul(last.before[0][c], SRat(199, 200))
            /\ u[2][c] = SMul(last.before[1][c], SRat(199, 200))

\* an attenuating tick from a grid whose layers 0 and 1 are not zero
C10_Witness ==
    /\ Updated
    /\ ~parameters.use_absorbing_boundary
    /\ \E c \in AllCells : last.before[0][c] # SZero
    /\ \E c \in AllCells : last.before[1][c] # SZero

====
